---- MODULE Spec2Model ----
(***************************************************************************)
(* KINAFLIX TV streaming server (Express + Socket.IO): the connection      *)
(* registry (connectedUsers), the shared roomState and the event handlers  *)
(* that mutate them and fan messages out to the connected sockets.         *)
(***************************************************************************)
EXTENDS Integers, Sequences, FiniteSets, TLC

\* ---------------------------------------------------------------- bounds
NumSockets == 3        \* socket ids that can be open at the same time (registry)
NumRoomSockets == 1    \* socket ids that can be open at the same time (room)
MaxClock == 2          \* readings of Date.now() (ids of uploaded videos)
MaxPlaylist == 2       \* longest playlist explored
MaxSeek == 1           \* largest seek time explored
NumFiles == 1          \* distinct uploaded file names
MAX_VIEWERS == 2       \* the viewer limit (const MAX_VIEWERS = 80), scaled to the sockets explored
NumAdvanceFiles == 2   \* distinct uploaded file names (playlist navigation)
NumKickSockets == 2    \* socket ids that can be open at the same time (kick)
NumUploads == 2        \* server.js: upload requests in flight at the same time
maxAttempts == 2       \* server.js: polls of the processing status (const maxAttempts = 60), scaled
NumDeletes == 2        \* server.js: delete requests in flight at the same time
NumCatalog == 3        \* app.js: documents of the videos collection (catalog navigation)
NumPreload == 5        \* app.js: documents of the videos collection (preloading)
MaxLoading == 1        \* part_000: preload elements of one video loading at the same time
NumChatSockets == 1    \* socket ids that can be open at the same time (chat)
CHAT_CAP == 2          \* the chat history cap (100 in chatHistory.slice(-100)), scaled
MAX_TEXT == 2          \* the message length cap (500 in substring(0, 500)), scaled
RATE_LIMIT == 2        \* the rate threshold (5 in recentMessages.length >= 5), scaled

\* now - time < 10000
RATE_WINDOW == 10000

Sockets == 1..NumSockets
RoomSockets == 1..NumRoomSockets
ChatSockets == 1..NumChatSockets
Times == 1..MaxClock
FileNames == 1..NumFiles
IdentifyTypes == {"admin", "viewer", "guest"}

\* a video descriptor { id: Date.now().toString(), originalName, ... }
Videos == [id : Times, file : FileNames]
\* JavaScript null in the place of a video descriptor
Null == [id |-> 0, file |-> 0]
\* absent entry of the connectedUsers Map
NoUser == [type |-> "none", name |-> <<>>]

\* server.js: the upload requests in flight, and a request that has not arrived
Uploads == 1..NumUploads
NoUpload == [pc |-> "none", attempts |-> 0, reason |-> "none"]

\* server.js: the delete requests in flight, and a request that has not arrived
Deletes == 1..NumDeletes
NoDelete == [pc |-> "none", video |-> 0, reason |-> "none"]

\* app.js: the ids of the documents of the videos collection, in createdAt order
PreloadIds == 1..NumPreload

VARIABLES
  connected,       \* io.sockets.sockets: ids of the sockets whose transport is open
  viewerCount,     \* per socket: const viewerCount captured by the connection callback
  connectedUsers,  \* Map socket.id -> { name, type }
  roomState,       \* the shared room state object
  clock,           \* last reading of Date.now()
  chatRateLimit,   \* per socket: chatRateLimit.get(socket.id) || [] of its connection
  snapshotSent,    \* per socket: 'roomState' has been emitted to it on this connection
  last,            \* the handler that ran last: [op, sock] and the arguments it read
  out,             \* the messages that handler emitted, in order: [ev, to, data]
  kickPending,     \* sockets with a kick setTimeout pending on their open connection
  serverUp,        \* the node process of the room server is running
  bunnyVideos,     \* server.js: guids of the video entries held by Bunny Stream
  videosTable,     \* server.js: bunny_guid of the rows of the videos table
  uploads,         \* server.js: per upload request, how far its route has got
  deletes,         \* server.js: per delete request, how far deleteVideoFromSystem has got
  videos,          \* app.js: KinaflixTV.videos, the ids of its entries in order
  currentIndex,    \* app.js: KinaflixTV.currentIndex
  currentVideo,    \* app.js: KinaflixTV.currentVideo, the id of the entry (0: null or undefined)
  preloadedVideos, \* part_000: the keys of the Map preloadedVideos, in insertion order
  loading          \* part_000: per video id, the preload elements that have not loaded yet

vars == <<connected, viewerCount, connectedUsers, roomState, clock, chatRateLimit,
          snapshotSent, last, out, kickPending, serverUp, bunnyVideos, videosTable, uploads,
          deletes, videos, currentIndex, currentVideo, preloadedVideos, loading>>

\* what the two servers leave alone: the page of a client
ClientFrame == UNCHANGED <<videos, currentIndex, currentVideo, preloadedVideos, loading>>

\* what the handlers of the room server leave alone: its process, the other server
\* and the clients' pages
Elsewhere == /\ UNCHANGED <<serverUp, bunnyVideos, videosTable, uploads, deletes>>
             /\ ClientFrame

\* ---------------------------------------------------------------- helpers
Msg(ev, to, data) == [ev |-> ev, to |-> to, data |-> data]

\* Array.from(connectedUsers.values()).filter(user => user.type === 'viewer')
viewerList(users) == {s \in Sockets : users[s].type = "viewer"}

\* user && user.type === 'admin'
isAdmin(s) == connectedUsers[s].type = "admin"

RECURSIVE filterOut(_, _)
\* playlist.filter(v => v.id !== videoId)
filterOut(pl, videoId) ==
  IF pl = <<>> THEN <<>>
  ELSE IF Head(pl).id # videoId THEN <<Head(pl)>> \o filterOut(Tail(pl), videoId)
       ELSE filterOut(Tail(pl), videoId)

\* playlist.findIndex(v => v.id === id), 0-based, -1 when absent
findIndex(pl, id) ==
  IF \E i \in 1..Len(pl) : pl[i].id = id
  THEN (CHOOSE i \in 1..Len(pl) : pl[i].id = id /\ \A j \in 1..(i-1) : pl[j].id # id) - 1
  ELSE -1

\* playlist.find(v => v.id === videoId), Null when absent
find(pl, id) == IF findIndex(pl, id) >= 0 THEN pl[findIndex(pl, id) + 1] ELSE Null

\* name || 'Admin': a name is the sequence of its parts, '' is the empty one
adminName(name) == IF name = "" THEN <<"Admin">> ELSE <<name>>

\* name || `Viewer_${socket.id.substring(0, 5)}`
viewerName(s, name) == IF name = "" THEN <<"Viewer_", s>> ELSE <<name>>

\* ---------------------------------------------------------------- initial state
Init ==
  /\ connected = {}
  /\ viewerCount = [s \in Sockets |-> 0]
  /\ connectedUsers = [s \in Sockets |-> NoUser]
  /\ roomState = [currentVideo |-> Null, isPlaying |-> FALSE, currentTime |-> 0,
                  playlist |-> <<>>, chatHistory |-> <<>>, subtitleEnabled |-> FALSE,
                  subtitleFile |-> 0, streamStartTime |-> 0]
  /\ clock = 1
  /\ chatRateLimit = [s \in Sockets |-> <<>>]
  /\ snapshotSent = [s \in Sockets |-> FALSE]
  /\ last = [op |-> "init", sock |-> 0]
  /\ out = <<>>
  /\ kickPending = {}
  /\ serverUp = TRUE
  /\ bunnyVideos = {}
  /\ videosTable = {}
  /\ uploads = [r \in Uploads |-> NoUpload]
  /\ deletes = [d \in Deletes |-> NoDelete]
  /\ videos = <<>>
  /\ currentIndex = 0
  /\ currentVideo = 0
  /\ preloadedVideos = <<>>
  /\ loading = [v \in PreloadIds |-> 0]

\* ---------------------------------------------------------------- connection handling
\* io.on('connection'): ping the socket and capture the viewer count
Connect(s) ==
  /\ s \notin connected
  /\ connected' = connected \cup {s}
  /\ viewerCount' = [viewerCount EXCEPT ![s] = Cardinality(viewerList(connectedUsers))]
  /\ snapshotSent' = [snapshotSent EXCEPT ![s] = FALSE]
  /\ last' = [op |-> "connection", sock |-> s]
  /\ out' = <<Msg("ping", {s}, 0)>>
  /\ chatRateLimit' = [chatRateLimit EXCEPT ![s] = <<>>]
  /\ UNCHANGED <<connectedUsers, roomState, clock, kickPending>>
  /\ Elsewhere

\* mutant: the Map is emptied
disconnectUsersAll(users, s) == [u \in Sockets |-> NoUser]

\* socket.on('disconnect'): the registry after the handler, for the users before it
disconnectUsers(users, s) == [users EXCEPT ![s] = NoUser]

\* socket.on('disconnect'): chatRateLimit.delete(socket.id), for a registered socket
disconnectRate(users, rate, s) ==
  IF users[s].type # "none" THEN [rate EXCEPT ![s] = <<>>] ELSE rate

\* socket.on('disconnect'): the messages of the handler; the leaving socket has
\* left the namespace already, io.emit reaches the others
disconnectOut(users, conn, s) ==
  IF users[s].type = "viewer"
  THEN <<Msg("userLeave", conn \ {s},
             [id |-> s, name |-> users[s].name,
              viewerCount |-> Cardinality(viewerList(disconnectUsers(users, s)))]),
         Msg("userListUpdate", conn \ {s}, viewerList(disconnectUsers(users, s)))>>
  ELSE IF users[s].type = "admin"
  THEN <<Msg("adminOnline", conn \ {s}, FALSE)>>
  ELSE <<>>

\* the transport of s closes (client leaves, ping timeout): socket.on('disconnect')
Disconnect(s) ==
  /\ s \in connected
  /\ connected' = connected \ {s}
  /\ connectedUsers' = disconnectUsers(connectedUsers, s)
  /\ viewerCount' = [viewerCount EXCEPT ![s] = 0]
  /\ snapshotSent' = [snapshotSent EXCEPT ![s] = FALSE]
  /\ last' = [op |-> "disconnect", sock |-> s]
  /\ out' = disconnectOut(connectedUsers, connected, s)
  /\ chatRateLimit' = disconnectRate(connectedUsers, chatRateLimit, s)
  /\ kickPending' = kickPending \ {s}
  /\ UNCHANGED <<roomState, clock>>
  /\ Elsewhere

\* the viewer-limit test of the identify handler: viewerCount >= MAX_VIEWERS
limitReached(s) == viewerCount[s] >= MAX_VIEWERS

\* mutant: the limit applied to admins too
admitsAdminBelowLimit(s, type) == type = "admin" /\ ~limitReached(s)

\* the admin test of the identify handler: type === 'admin'
admitsAdmin(s, type) == type = "admin"

\* socket.on('identify') with type === 'admin'
IdentifyAdmin(s, name) ==
  /\ connectedUsers' = [connectedUsers EXCEPT ![s] = [type |-> "admin", name |-> adminName(name)]]
  /\ snapshotSent' = [snapshotSent EXCEPT ![s] = TRUE]
  /\ out' = <<Msg("identified", {s}, [isAdmin |-> TRUE, socketId |-> s]),
              Msg("roomState", {s}, roomState),
              Msg("adminOnline", connected, TRUE)>>
  /\ UNCHANGED <<connected, viewerCount, chatRateLimit, kickPending>>

\* socket.on('identify'), viewerCount >= MAX_VIEWERS: notice, then socket.disconnect(),
\* which runs the socket's disconnect handler
IdentifyRejected(s) ==
  /\ connected' = connected \ {s}
  /\ connectedUsers' = disconnectUsers(connectedUsers, s)
  /\ viewerCount' = [viewerCount EXCEPT ![s] = 0]
  /\ snapshotSent' = [snapshotSent EXCEPT ![s] = FALSE]
  /\ out' = <<Msg("viewerLimitReached", {s}, MAX_VIEWERS)>>
            \o disconnectOut(connectedUsers, connected, s)
  /\ chatRateLimit' = disconnectRate(connectedUsers, chatRateLimit, s)
  /\ kickPending' = kickPending \ {s}

\* socket.on('identify'), any other type, below the limit
IdentifyViewer(s, name) ==
  LET users == [connectedUsers EXCEPT ![s] = [type |-> "viewer", name |-> viewerName(s, name)]]
  IN /\ connectedUsers' = users
     /\ snapshotSent' = [snapshotSent EXCEPT ![s] = TRUE]
     /\ out' = <<Msg("identified", {s}, [isAdmin |-> FALSE, socketId |-> s]),
                 Msg("roomState", {s}, roomState),
                 Msg("userJoin", connected,
                     [id |-> s, name |-> users[s].name,
                      viewerCount |-> Cardinality(viewerList(users))]),
                 Msg("userListUpdate", connected, viewerList(users))>>
     /\ UNCHANGED <<connected, viewerCount, chatRateLimit, kickPending>>

\* socket.on('identify', data) with data = { name, type }
Identify(s, type, name) ==
  /\ s \in connected
  /\ last' = [op |-> "identify", sock |-> s, type |-> type]
  /\ IF admitsAdmin(s, type) THEN IdentifyAdmin(s, name)
     ELSE IF limitReached(s) THEN IdentifyRejected(s)
     ELSE IdentifyViewer(s, name)
  /\ UNCHANGED <<roomState, clock>>
  /\ Elsewhere

\* socket.on('identify', data) with data null or undefined: the destructuring throws
IdentifyMalformed(s) ==
  /\ s \in connected
  /\ last' = [op |-> "identifyMalformed", sock |-> s]
  /\ out' = <<Msg("error", {s}, "Identification failed")>>
  /\ UNCHANGED <<connected, viewerCount, connectedUsers, roomState, clock, chatRateLimit,
                        snapshotSent, kickPending>>
  /\ Elsewhere

\* ---------------------------------------------------------------- admin playback controls
\* a handler that found nothing to do: no state change, nothing emitted
Ignored == /\ out' = <<>>
           /\ UNCHANGED <<connected, viewerCount, connectedUsers, roomState, clock, chatRateLimit,
                        snapshotSent, kickPending>>
           /\ Elsewhere

\* what every socket handler below leaves alone
SocketFrame == /\ UNCHANGED <<connected, viewerCount, connectedUsers, clock, chatRateLimit,
                              snapshotSent, kickPending>>
               /\ Elsewhere

\* mutant: play restarts the video
orZeroAlways(t) == 0

\* roomState.currentTime || 0
orZero(t) == IF t = 0 THEN 0 ELSE t

\* mutant: the role test left out
mayPlayAnyone(s) == TRUE

\* the role test of the playVideo handler: user && user.type === 'admin'
mayPlay(s) == isAdmin(s)

\* socket.on('playVideo')
PlayVideo(s) ==
  /\ s \in connected
  /\ last' = [op |-> "playVideo", sock |-> s]
  /\ IF mayPlay(s)
     THEN /\ roomState' = [roomState EXCEPT !.isPlaying = TRUE,
                                            !.currentTime = orZero(roomState.currentTime)]
          /\ out' = <<Msg("playVideo", connected,
                          [currentTime |-> orZero(roomState.currentTime)])>>
          /\ SocketFrame
     ELSE Ignored

\* socket.on('pauseVideo')
PauseVideo(s) ==
  /\ s \in connected
  /\ last' = [op |-> "pauseVideo", sock |-> s]
  /\ IF isAdmin(s)
     THEN /\ roomState' = [roomState EXCEPT !.isPlaying = FALSE]
          /\ out' = <<Msg("pauseVideo", connected, 0)>>
          /\ SocketFrame
     ELSE Ignored

\* an argument of seekVideo: a number, or something that is not a number
SeekInputs == [isNumber : {TRUE}, val : (-1)..MaxSeek] \cup {[isNumber |-> FALSE, val |-> 0]}

\* mutant: time <= 0 in the place of time < 0
invalidSeekZero(time) == ~time.isNumber \/ time.val <= 0

\* typeof time !== 'number' || time < 0
invalidSeek(time) == ~time.isNumber \/ time.val < 0

\* socket.on('seekVideo', time)
SeekVideo(s, time) ==
  /\ s \in connected
  /\ last' = IF isAdmin(s) THEN [op |-> "seekVideo", sock |-> s, time |-> time]
              ELSE [op |-> "seekVideo", sock |-> s]
  /\ IF isAdmin(s)
     THEN IF invalidSeek(time)
          THEN /\ out' = <<Msg("error", {s}, "Invalid seek time")>>
               /\ UNCHANGED roomState
               /\ SocketFrame
          ELSE /\ roomState' = [roomState EXCEPT !.currentTime = time.val]
               /\ out' = <<Msg("seekVideo", connected, [time |-> time.val])>>
               /\ SocketFrame
     ELSE Ignored

\* roomState after currentVideo = video; currentTime = 0; isPlaying = true
startVideo(rs, video) ==
  [rs EXCEPT !.currentVideo = video, !.currentTime = 0, !.isPlaying = TRUE]

\* mutant: playVideo emitted before videoChange
changeOutPlayFirst(conn, video) ==
  <<Msg("playVideo", conn, [currentTime |-> 0]), Msg("videoChange", conn, video)>>

\* io.emit('videoChange', currentVideo); io.emit('playVideo', { currentTime: 0 })
changeOut(conn, video) ==
  <<Msg("videoChange", conn, video), Msg("playVideo", conn, [currentTime |-> 0])>>

\* (currentIndex + 1) % playlist.length
nextIndex(pl, cur) == (findIndex(pl, cur.id) + 1) % Len(pl)

\* currentIndex > 0 ? currentIndex - 1 : playlist.length - 1
prevIndex(pl, cur) ==
  IF findIndex(pl, cur.id) > 0 THEN findIndex(pl, cur.id) - 1 ELSE Len(pl) - 1

\* mutant: the test of playlist.length left out
NextVideoUnguarded(s) ==
  /\ s \in connected
  /\ last' = [op |-> "nextVideo", sock |-> s]
  /\ IF isAdmin(s)
     THEN LET video == IF Len(roomState.playlist) > 0
                       THEN roomState.playlist[nextIndex(roomState.playlist, roomState.currentVideo) + 1]
                       ELSE Null
          IN /\ roomState' = startVideo(roomState, video)
             /\ out' = changeOut(connected, video)
             /\ SocketFrame
     ELSE Ignored

\* socket.on('nextVideo')
NextVideo(s) ==
  /\ s \in connected
  /\ last' = [op |-> "nextVideo", sock |-> s]
  /\ IF isAdmin(s) /\ Len(roomState.playlist) > 0
     THEN LET video == roomState.playlist[nextIndex(roomState.playlist, roomState.currentVideo) + 1]
          IN /\ roomState' = startVideo(roomState, video)
             /\ out' = changeOut(connected, video)
             /\ SocketFrame
     ELSE Ignored

\* socket.on('previousVideo')
PreviousVideo(s) ==
  /\ s \in connected
  /\ last' = [op |-> "previousVideo", sock |-> s]
  /\ IF isAdmin(s) /\ Len(roomState.playlist) > 0
     THEN LET video == roomState.playlist[prevIndex(roomState.playlist, roomState.currentVideo) + 1]
          IN /\ roomState' = startVideo(roomState, video)
             /\ out' = changeOut(connected, video)
             /\ SocketFrame
     ELSE Ignored

\* socket.on('selectVideo', videoId)
SelectVideo(s, videoId) ==
  /\ s \in connected
  /\ last' = IF isAdmin(s) THEN [op |-> "selectVideo", sock |-> s, videoId |-> videoId]
              ELSE [op |-> "selectVideo", sock |-> s]
  /\ IF isAdmin(s) /\ find(roomState.playlist, videoId) # Null
     THEN /\ roomState' = startVideo(roomState, find(roomState.playlist, videoId))
          /\ out' = changeOut(connected, find(roomState.playlist, videoId))
          /\ SocketFrame
     ELSE Ignored

\* socket.on('toggleSubtitles', enabled)
ToggleSubtitles(s, enabled) ==
  /\ s \in connected
  /\ last' = [op |-> "toggleSubtitles", sock |-> s]
  /\ IF isAdmin(s)
     THEN /\ roomState' = [roomState EXCEPT !.subtitleEnabled = enabled]
          /\ out' = <<Msg("subtitlesToggle", connected, [enabled |-> enabled])>>
          /\ SocketFrame
     ELSE Ignored

\* mutant: any registered socket is answered
maySyncRegistered(s) == connectedUsers[s].type # "none"

\* user && user.type === 'viewer'
maySync(s) == connectedUsers[s].type = "viewer"

\* the syncResponse payload for the room state rs
syncResponse(rs) ==
  [currentVideo |-> rs.currentVideo, isPlaying |-> rs.isPlaying, currentTime |-> rs.currentTime,
   subtitleEnabled |-> rs.subtitleEnabled, subtitleFile |-> rs.subtitleFile]

\* socket.on('syncRequest')
SyncRequest(s) ==
  /\ s \in connected
  /\ last' = [op |-> "syncRequest", sock |-> s]
  /\ IF maySync(s)
     THEN /\ out' = <<Msg("syncResponse", {s}, syncResponse(roomState))>>
          /\ UNCHANGED roomState
          /\ SocketFrame
     ELSE Ignored

\* socket.on('kickUser', userId): the notice goes out at once, the forced disconnect
\* is left to a timer
KickUser(s, userId) ==
  /\ s \in connected
  /\ last' = IF isAdmin(s) THEN [op |-> "kickUser", sock |-> s, userId |-> userId]
              ELSE [op |-> "kickUser", sock |-> s]
  /\ IF isAdmin(s) /\ userId \in connected
     THEN /\ out' = <<Msg("kicked", {userId}, "Removed by admin")>>
          /\ kickPending' = kickPending \cup {userId}
          /\ UNCHANGED <<connected, viewerCount, connectedUsers, roomState, clock, chatRateLimit,
                         snapshotSent>>
          /\ Elsewhere
     ELSE Ignored

\* the setTimeout callback of kickUser, 1000 ms later, for a socket that is still
\* connected: userSocket.disconnect() runs its disconnect handler. A callback that
\* finds userSocket.connected false does nothing; such timers are dropped from
\* kickPending when the socket disconnects.
KickTimeout(s) ==
  /\ serverUp
  /\ s \in kickPending
  /\ connected' = connected \ {s}
  /\ connectedUsers' = disconnectUsers(connectedUsers, s)
  /\ viewerCount' = [viewerCount EXCEPT ![s] = 0]
  /\ snapshotSent' = [snapshotSent EXCEPT ![s] = FALSE]
  /\ last' = [op |-> "kickTimeout", sock |-> s]
  /\ out' = disconnectOut(connectedUsers, connected, s)
  /\ chatRateLimit' = disconnectRate(connectedUsers, chatRateLimit, s)
  /\ kickPending' = kickPending \ {s}
  /\ UNCHANGED <<roomState, clock>>
  /\ Elsewhere

\* the setInterval callback, every 60000 ms: chatRateLimit is a const of the
\* connection callback and is not in scope at module level, so the for statement
\* throws a ReferenceError; no handler for uncaught exceptions is installed and
\* the process exits
Sweep ==
  /\ serverUp
  /\ serverUp' = FALSE
  /\ last' = [op |-> "sweep", sock |-> 0]
  /\ out' = <<>>
  /\ UNCHANGED <<connected, viewerCount, connectedUsers, roomState, clock, chatRateLimit,
                 snapshotSent, kickPending, bunnyVideos, videosTable, uploads, deletes>>
  /\ ClientFrame

\* ---------------------------------------------------------------- HTTP playlist routes
\* what the HTTP routes leave alone
HttpFrame == /\ UNCHANGED <<connected, viewerCount, connectedUsers, chatRateLimit, snapshotSent,
                            kickPending>>
             /\ Elsewhere

\* mutant: the test of streamStartTime left out
addVideoRestamp(rs, video, t) ==
  LET pl == Append(rs.playlist, video)
  IN IF rs.currentVideo = Null /\ Len(pl) > 0
     THEN [rs EXCEPT !.playlist = pl, !.currentVideo = pl[1], !.streamStartTime = t]
     ELSE [rs EXCEPT !.playlist = pl]

\* roomState after playlist.push(videoInfo) and the first-video rule, at time t
addVideo(rs, video, t) ==
  LET pl == Append(rs.playlist, video)
  IN IF rs.currentVideo = Null /\ Len(pl) > 0
     THEN [rs EXCEPT !.playlist = pl, !.currentVideo = pl[1],
                     !.streamStartTime = IF rs.streamStartTime = 0 THEN t ELSE @]
     ELSE [rs EXCEPT !.playlist = pl]

\* app.post('/api/upload/video') with a file, Date.now() reading t
UploadVideo(t, file) ==
  /\ t >= clock
  /\ Len(roomState.playlist) < MaxPlaylist
  /\ clock' = t
  /\ roomState' = addVideo(roomState, [id |-> t, file |-> file], t)
  /\ last' = [op |-> "uploadVideo", sock |-> 0]
  /\ out' = <<Msg("playlistUpdate", connected, roomState'.playlist)>>
  /\ HttpFrame

\* app.post('/api/upload/subtitle') with a file; the locator `/subtitles/${filename}`
\* is identified by the uploaded file
UploadSubtitle(file) ==
  /\ roomState' = [roomState EXCEPT !.subtitleFile = file]
  /\ last' = [op |-> "uploadSubtitle", sock |-> 0]
  /\ out' = <<Msg("subtitleUpdate", connected, file)>>
  /\ UNCHANGED clock
  /\ HttpFrame

\* mutant: the playback flags kept when the current video goes
removeVideoKeepsFlags(rs, videoId) ==
  LET pl == filterOut(rs.playlist, videoId)
  IN IF rs.currentVideo # Null /\ rs.currentVideo.id = videoId
     THEN [rs EXCEPT !.playlist = pl,
                     !.currentVideo = IF Len(pl) > 0 THEN pl[1] ELSE Null]
     ELSE [rs EXCEPT !.playlist = pl]

\* roomState after the delete route for videoId
removeVideo(rs, videoId) ==
  LET pl == filterOut(rs.playlist, videoId)
  IN IF rs.currentVideo # Null /\ rs.currentVideo.id = videoId
     THEN [rs EXCEPT !.playlist = pl,
                     !.currentVideo = IF Len(pl) > 0 THEN pl[1] ELSE Null,
                     !.currentTime = 0, !.isPlaying = FALSE]
     ELSE [rs EXCEPT !.playlist = pl]

\* app.delete('/api/video/:id')
DeleteVideo(videoId) ==
  /\ roomState' = removeVideo(roomState, videoId)
  /\ last' = [op |-> "deleteVideo", sock |-> 0, videoId |-> videoId]
  /\ out' = (IF roomState.currentVideo # Null /\ roomState.currentVideo.id = videoId
             THEN <<Msg("videoChange", connected, roomState'.currentVideo),
                    Msg("playbackState", connected, [isPlaying |-> FALSE, currentTime |-> 0])>>
             ELSE <<>>)
            \o <<Msg("playlistUpdate", connected, roomState'.playlist)>>
  /\ UNCHANGED clock
  /\ HttpFrame

\* the playlists a reorder request can carry
RECURSIVE SeqsUpTo(_, _)
SeqsUpTo(S, n) ==
  IF n = 0 THEN {<<>>}
  ELSE SeqsUpTo(S, n - 1) \cup {Append(q, x) : q \in {r \in SeqsUpTo(S, n - 1) : Len(r) = n - 1}, x \in S}
Orders == SeqsUpTo(Videos, MaxPlaylist)

\* app.post('/api/playlist/reorder') with req.body.playlist = newOrder
ReorderPlaylist(newOrder) ==
  /\ roomState' = [roomState EXCEPT !.playlist = newOrder]
  /\ last' = [op |-> "reorderPlaylist", sock |-> 0]
  /\ out' = <<Msg("playlistUpdate", connected, newOrder)>>
  /\ UNCHANGED clock
  /\ HttpFrame

\* app.delete('/api/playlist/clear')
ClearPlaylist ==
  /\ roomState' = IF roomState.currentVideo # Null
                  THEN [roomState EXCEPT !.playlist = <<>>, !.currentVideo = Null,
                                         !.currentTime = 0, !.isPlaying = FALSE]
                  ELSE [roomState EXCEPT !.playlist = <<>>]
  /\ last' = [op |-> "clearPlaylist", sock |-> 0]
  /\ out' = (IF roomState.currentVideo # Null
             THEN <<Msg("videoChange", connected, Null),
                    Msg("playbackState", connected, [isPlaying |-> FALSE, currentTime |-> 0])>>
             ELSE <<>>)
            \o <<Msg("playlistUpdate", connected, <<>>)>>
  /\ UNCHANGED clock
  /\ HttpFrame

\* ---------------------------------------------------------------- server.js: upload to Bunny Stream
\* what the routes of server.js leave alone: the room server
StorageFrame ==
  /\ UNCHANGED <<connected, viewerCount, connectedUsers, roomState, clock, chatRateLimit,
                 snapshotSent, kickPending, serverUp>>
  /\ ClientFrame

\* the catch of the upload route: status 500 with error.message
uploadFailed(why) == [pc |-> "failed", attempts |-> 0, reason |-> why]

\* the outcomes of the PUT of the file, and of one poll of the processing status
TransferResults == {"ok", "rejected", "threw"}
\* a poll answers status 3, status 4, anything else (another status or a response
\* that is not ok), or its fetch throws
PollResults == {"finished", "error", "pending", "threw"}

\* app.post('/api/upload/video') up to the first await of uploadToBunnyStream: the
\* POST that creates the video entry; the entry of request r has guid r
UploadCreate(r, ok) ==
  /\ uploads[r].pc = "none"
  /\ IF ok
     THEN /\ bunnyVideos' = bunnyVideos \cup {r}
          /\ uploads' = [uploads EXCEPT ![r].pc = "created"]
     ELSE /\ uploads' = [uploads EXCEPT ![r] = uploadFailed("Bunny create failed")]
          /\ UNCHANGED bunnyVideos
  /\ last' = [op |-> "uploadCreate", sock |-> 0, req |-> r]
  /\ out' = <<>>
  /\ UNCHANGED videosTable
  /\ UNCHANGED deletes
  /\ StorageFrame

\* uploadToBunnyStream, step 2: read the file and PUT it; a rejected PUT is
\* followed by a DELETE of the entry whose failure is swallowed (cleaned tells
\* whether the DELETE took the entry away)
UploadTransfer(r, result, cleaned) ==
  /\ uploads[r].pc = "created"
  /\ IF result = "ok"
     THEN /\ uploads' = [uploads EXCEPT ![r].pc = "processing"]
          /\ UNCHANGED bunnyVideos
     ELSE IF result = "rejected"
     THEN /\ uploads' = [uploads EXCEPT ![r] = uploadFailed("Bunny upload failed")]
          /\ bunnyVideos' = IF cleaned THEN bunnyVideos \ {r} ELSE bunnyVideos
     ELSE /\ uploads' = [uploads EXCEPT ![r] = uploadFailed("transfer error")]
          /\ UNCHANGED bunnyVideos
  /\ last' = [op |-> "uploadTransfer", sock |-> 0, req |-> r]
  /\ out' = <<>>
  /\ UNCHANGED videosTable
  /\ UNCHANGED deletes
  /\ StorageFrame

\* the polling loop with the test behind it taken the wrong way round: the loop
\* that runs out of attempts falls through and the function returns nothing
UploadPollReturnsNothing(r, status) ==
  /\ uploads[r].pc = "processing"
  /\ uploads[r].attempts < maxAttempts
  /\ uploads' =
       IF status = "finished" THEN [uploads EXCEPT ![r].pc = "processed"]
       ELSE IF status = "error" THEN [uploads EXCEPT ![r] = uploadFailed("Bunny encoding failed")]
       ELSE IF status = "threw" THEN [uploads EXCEPT ![r] = uploadFailed("status request error")]
       ELSE IF uploads[r].attempts + 1 >= maxAttempts
       THEN [uploads EXCEPT ![r].pc = "processed"]
       ELSE [uploads EXCEPT ![r].attempts = @ + 1]
  /\ last' = [op |-> "uploadPoll", sock |-> 0, req |-> r, status |-> status]
  /\ out' = <<>>
  /\ UNCHANGED <<bunnyVideos, videosTable>>
  /\ UNCHANGED deletes
  /\ StorageFrame

\* uploadToBunnyStream, step 3: one turn of the polling loop (wait 5 s, fetch the
\* status), and the timeout test behind the loop; a fetch that throws leaves
\* through the catch, which throws the error again
UploadPoll(r, status) ==
  /\ uploads[r].pc = "processing"
  /\ uploads[r].attempts < maxAttempts
  /\ uploads' =
       IF status = "finished" THEN [uploads EXCEPT ![r].pc = "processed"]
       ELSE IF status = "error" THEN [uploads EXCEPT ![r] = uploadFailed("Bunny encoding failed")]
       ELSE IF status = "threw" THEN [uploads EXCEPT ![r] = uploadFailed("status request error")]
       ELSE IF uploads[r].attempts + 1 >= maxAttempts
       THEN [uploads EXCEPT ![r] = uploadFailed("Video processing timeout")]
       ELSE [uploads EXCEPT ![r].attempts = @ + 1]
  /\ last' = [op |-> "uploadPoll", sock |-> 0, req |-> r, status |-> status]
  /\ out' = <<>>
  /\ UNCHANGED <<bunnyVideos, videosTable>>
  /\ UNCHANGED deletes
  /\ StorageFrame

\* storeVideoMetadata and the response of the upload route
UploadStore(r, ok) ==
  /\ uploads[r].pc = "processed"
  /\ IF ok
     THEN /\ videosTable' = videosTable \cup {r}
          /\ uploads' = [uploads EXCEPT ![r].pc = "done"]
     ELSE /\ uploads' = [uploads EXCEPT ![r] = uploadFailed("insert failed")]
          /\ UNCHANGED videosTable
  /\ last' = [op |-> "uploadStore", sock |-> 0, req |-> r]
  /\ out' = <<>>
  /\ UNCHANGED bunnyVideos
  /\ UNCHANGED deletes
  /\ StorageFrame

\* ---------------------------------------------------------------- server.js: delete from Bunny Stream and the table
\* the row of a video is named by the guid of its Bunny Stream entry
\* reject(...) of the promise of deleteVideoFromSystem
deleteFailed(v, why) == [pc |-> "failed", video |-> v, reason |-> why]

\* the answers to the DELETE sent to Bunny Stream: done, 404, another status
\* that is not ok, or a fetch that throws
RemoteAnswers == {"ok", "notFound", "failed", "threw"}

\* deleteVideoFromSystem(videoId), step 1: db.get of the row and the two early
\* rejections of its callback
DeleteLookup(d, v, ok) ==
  /\ deletes[d].pc = "none"
  /\ deletes' = [deletes EXCEPT ![d] =
                   IF ~ok THEN deleteFailed(v, "select failed")
                   ELSE IF v \notin videosTable THEN deleteFailed(v, "Video not found")
                   ELSE [pc |-> "found", video |-> v, reason |-> "none"]]
  /\ last' = [op |-> "deleteLookup", sock |-> 0, req |-> d]
  /\ out' = <<>>
  /\ UNCHANGED <<bunnyVideos, videosTable, uploads>>
  /\ StorageFrame

\* step 2, in the async callback of db.get: the DELETE sent to Bunny Stream. A
\* status that is neither ok nor 404 rejects. A fetch that throws rejects the
\* promise of the callback, which nobody holds: the try of the executor has been
\* left long before, and the promise of deleteVideoFromSystem is never settled
DeleteRemote(d, answer) ==
  /\ deletes[d].pc = "found"
  /\ answer = "ok" => deletes[d].video \in bunnyVideos
  /\ answer = "notFound" => deletes[d].video \notin bunnyVideos
  /\ bunnyVideos' = IF answer = "ok" THEN bunnyVideos \ {deletes[d].video} ELSE bunnyVideos
  /\ deletes' = [deletes EXCEPT ![d] =
                   IF answer = "failed" THEN deleteFailed(@.video, "Bunny delete failed")
                   ELSE IF answer = "threw" THEN [@ EXCEPT !.pc = "abandoned"]
                   ELSE [@ EXCEPT !.pc = "remoteGone"]]
  /\ last' = [op |-> "deleteRemote", sock |-> 0, req |-> d, answer |-> answer]
  /\ out' = <<>>
  /\ UNCHANGED <<videosTable, uploads>>
  /\ StorageFrame

\* step 3: db.run of the DELETE of the row, and the settlement in its callback
DeleteRow(d, ok) ==
  /\ deletes[d].pc = "remoteGone"
  /\ IF ok
     THEN /\ videosTable' = videosTable \ {deletes[d].video}
          /\ deletes' = [deletes EXCEPT ![d].pc = "done"]
     ELSE /\ deletes' = [deletes EXCEPT ![d] = deleteFailed(@.video, "row removal failed")]
          /\ UNCHANGED videosTable
  /\ last' = [op |-> "deleteRow", sock |-> 0, req |-> d, ok |-> ok]
  /\ out' = <<>>
  /\ UNCHANGED <<bunnyVideos, uploads>>
  /\ StorageFrame

\* ---------------------------------------------------------------- app.js: the catalog of a client
\* what the page of a client leaves alone: the two servers
PageFrame ==
  UNCHANGED <<connected, viewerCount, connectedUsers, roomState, clock, chatRateLimit,
              snapshotSent, kickPending, serverUp, bunnyVideos, videosTable, uploads, deletes>>

\* the collection ordered by createdAt: documents are created in the order of
\* their ids, so a snapshot lists the ids it holds in increasing order
RECURSIVE snapshotDocs(_)
snapshotDocs(ids) ==
  IF ids = {} THEN <<>>
  ELSE LET first == CHOOSE v \in ids : \A w \in ids : v <= w
       IN <<first>> \o snapshotDocs(ids \ {first})

\* the snapshots the catalog navigation is run on, and the one the preloading is
Catalogs == {snapshotDocs(ids) : ids \in SUBSET (1..NumCatalog)}
FullCatalog == snapshotDocs(PreloadIds)

\* array[index] of JavaScript with a 0-based index: undefined (0) out of range
at(array, index) == IF index >= 0 /\ index < Len(array) THEN array[index + 1] ELSE 0

\* videos.findIndex(v => v.id === id) on a list of ids, 0-based, -1 when absent
indexOfId(array, id) ==
  IF \E i \in 1..Len(array) : array[i] = id
  THEN (CHOOSE i \in 1..Len(array) : array[i] = id /\ \A j \in 1..(i-1) : array[j] # id) - 1
  ELSE -1

\* loadVideos(), run by init() before anything else: the first get of the
\* collection; an empty one has the demo videos added on the server side only
LoadVideos(docs, ok) ==
  /\ last.op = "init"
  /\ videos' = IF ok THEN docs ELSE <<>>
  /\ currentVideo' = IF ok THEN at(docs, 0) ELSE 0
  /\ last' = [op |-> "loadVideos", sock |-> 0, ret |-> 0]
  /\ out' = <<>>
  /\ UNCHANGED <<currentIndex, preloadedVideos, loading>>
  /\ PageFrame

\* the onSnapshot callback of setupRealtimeUpdates with snapshot.docs = docs
OnSnapshot(docs) ==
  /\ videos' = docs
  /\ currentVideo' =
       IF /\ Len(videos) > 0 /\ Len(docs) > 0
          /\ at(videos, currentIndex) # 0 /\ at(docs, currentIndex) # 0
          /\ at(videos, currentIndex) # at(docs, currentIndex)
       THEN at(docs, currentIndex)
       ELSE currentVideo
  /\ last' = [op |-> "onSnapshot", sock |-> 0, ret |-> 0]
  /\ out' = <<>>
  /\ UNCHANGED <<currentIndex, preloadedVideos, loading>>
  /\ PageFrame

\* getNextVideo()
GetNextVideo ==
  /\ IF Len(videos) = 0
     THEN /\ last' = [op |-> "getNextVideo", sock |-> 0, ret |-> 0]
          /\ UNCHANGED <<currentIndex, currentVideo>>
     ELSE /\ currentIndex' = (currentIndex + 1) % Len(videos)
          /\ currentVideo' = at(videos, currentIndex')
          /\ last' = [op |-> "getNextVideo", sock |-> 0, ret |-> currentVideo']
  /\ out' = <<>>
  /\ UNCHANGED <<videos, preloadedVideos, loading>>
  /\ PageFrame

\* getPreviousVideo()
GetPreviousVideo ==
  /\ IF Len(videos) = 0
     THEN /\ last' = [op |-> "getPreviousVideo", sock |-> 0, ret |-> 0]
          /\ UNCHANGED <<currentIndex, currentVideo>>
     ELSE /\ currentIndex' = (currentIndex - 1 + Len(videos)) % Len(videos)
          /\ currentVideo' = at(videos, currentIndex')
          /\ last' = [op |-> "getPreviousVideo", sock |-> 0, ret |-> currentVideo']
  /\ out' = <<>>
  /\ UNCHANGED <<videos, preloadedVideos, loading>>
  /\ PageFrame

\* setCurrentVideo(video) with video.id = id
SetCurrentVideo(id) ==
  /\ IF indexOfId(videos, id) # -1
     THEN /\ currentIndex' = indexOfId(videos, id)
          /\ currentVideo' = id
     ELSE UNCHANGED <<currentIndex, currentVideo>>
  /\ last' = [op |-> "setCurrentVideo", sock |-> 0, ret |-> 0]
  /\ out' = <<>>
  /\ UNCHANGED <<videos, preloadedVideos, loading>>
  /\ PageFrame

\* ---------------------------------------------------------------- part_000: the player's preload cache
\* if (this.preloadedVideos.size > 3)
PRELOAD_KEEP == 3

\* preloadVideo(video) on the cache and the elements that are loading: one more
\* element loads, and a cache above the size kept loses its first key
preloadVideo(cache, id) ==
  [keys |-> IF Len(cache.keys) > PRELOAD_KEEP THEN Tail(cache.keys) ELSE cache.keys,
   loading |-> [cache.loading EXCEPT ![id] = @ + 1]]

\* if (nextVideo && !this.preloadedVideos.has(nextVideo.id)) this.preloadVideo(nextVideo)
\* for the entry i places after the current one
preloadAhead(cache, i) ==
  LET id == at(videos, (currentIndex + i) % Len(videos))
  IN IF id # 0 /\ ~(\E k \in 1..Len(cache.keys) : cache.keys[k] = id)
     THEN preloadVideo(cache, id)
     ELSE cache

\* no video has more elements loading than the model keeps track of
loadingFits(cache) == \A v \in PreloadIds : cache.loading[v] <= MaxLoading

\* startPreloading(): the next two entries
StartPreloading ==
  LET cache == [keys |-> preloadedVideos, loading |-> loading]
      after == IF Len(videos) < 2 THEN cache ELSE preloadAhead(preloadAhead(cache, 1), 2)
  IN /\ loadingFits(after)
     /\ preloadedVideos' = after.keys
     /\ loading' = after.loading
     /\ last' = [op |-> "startPreloading", sock |-> 0, ret |-> 0]
     /\ out' = <<>>
     /\ UNCHANGED <<videos, currentIndex, currentVideo>>
     /\ PageFrame

\* preloadNextVideo(): the next entry
PreloadNextVideo ==
  LET cache == [keys |-> preloadedVideos, loading |-> loading]
      after == IF Len(videos) < 2 THEN cache ELSE preloadAhead(cache, 1)
  IN /\ loadingFits(after)
     /\ preloadedVideos' = after.keys
     /\ loading' = after.loading
     /\ last' = [op |-> "preloadNextVideo", sock |-> 0, ret |-> 0]
     /\ out' = <<>>
     /\ UNCHANGED <<videos, currentIndex, currentVideo>>
     /\ PageFrame

\* preloadVideo.onloadeddata of an element of video id: preloadedVideos.set, which
\* appends a new key and leaves a key it holds where it is
OnLoadedData(id) ==
  /\ loading[id] > 0
  /\ loading' = [loading EXCEPT ![id] = @ - 1]
  /\ preloadedVideos' = IF \E k \in 1..Len(preloadedVideos) : preloadedVideos[k] = id
                        THEN preloadedVideos
                        ELSE Append(preloadedVideos, id)
  /\ last' = [op |-> "onloadeddata", sock |-> 0, ret |-> 0]
  /\ out' = <<>>
  /\ UNCHANGED <<videos, currentIndex, currentVideo>>
  /\ PageFrame

\* preloadVideo.onerror of an element of video id
OnPreloadError(id) ==
  /\ loading[id] > 0
  /\ loading' = [loading EXCEPT ![id] = @ - 1]
  /\ last' = [op |-> "onerror", sock |-> 0, ret |-> 0]
  /\ out' = <<>>
  /\ UNCHANGED <<videos, currentIndex, currentVideo, preloadedVideos>>
  /\ PageFrame

\* ---------------------------------------------------------------- chat
\* readings of Date.now() around the edge of the rate window
ChatTimes == {1, RATE_WINDOW, RATE_WINDOW + 1}

\* a text as long as the length cap, and one that is longer
FullText == [i \in 1..MAX_TEXT |-> "a"]
LongText == [i \in 1..(MAX_TEXT + 2) |-> "a"]

\* data.message of a chat submission, a string as the sequence of its characters:
\* empty, white space only, and the two texts above between white space
ChatTexts == {<<>>, <<" ">>, <<" ">> \o FullText \o <<" ">>, <<" ">> \o LongText \o <<" ">>}

RECURSIVE trimStart(_)
\* String.prototype.trim, leading white space
trimStart(text) ==
  IF text = <<>> THEN <<>>
  ELSE IF Head(text) = " " THEN trimStart(Tail(text)) ELSE text

RECURSIVE trimEnd(_)
\* String.prototype.trim, trailing white space
trimEnd(text) ==
  IF text = <<>> THEN <<>>
  ELSE IF text[Len(text)] = " " THEN trimEnd(SubSeq(text, 1, Len(text) - 1)) ELSE text

\* data.message.trim()
trim(text) == trimEnd(trimStart(text))

\* mutant: no cut
substringWhole(text, n) == text

\* .substring(0, n)
substring(text, n) == SubSeq(text, 1, IF Len(text) < n THEN Len(text) ELSE n)

\* userMessages.filter(time => now - time < 10000)
recentMessages(userMessages, now) ==
  SelectSeq(userMessages, LAMBDA time : now - time < RATE_WINDOW)

\* mutant: > in the place of >=
rateLimitedAbove(userMessages, now) == Len(recentMessages(userMessages, now)) > RATE_LIMIT

\* recentMessages.length >= 5
rateLimited(userMessages, now) == Len(recentMessages(userMessages, now)) >= RATE_LIMIT

\* mutant: slice(0, 100) in the place of slice(-100)
pushCappedOldest(chatHistory, message) ==
  LET pushed == Append(chatHistory, message)
  IN IF Len(pushed) > CHAT_CAP THEN SubSeq(pushed, 1, CHAT_CAP) ELSE pushed

\* chatHistory.push(message); if (length > 100) chatHistory = chatHistory.slice(-100)
pushCapped(chatHistory, message) ==
  LET pushed == Append(chatHistory, message)
  IN IF Len(pushed) > CHAT_CAP
     THEN SubSeq(pushed, Len(pushed) - CHAT_CAP + 1, Len(pushed))
     ELSE pushed

\* mutant: the author's role left out of the message
chatMessageOfViewer(s, user, text, t) ==
  [id |-> t, userId |-> s, userName |-> user.name,
   text |-> substring(trim(text), MAX_TEXT), isAdmin |-> FALSE]

\* the message object built by the chatMessage handler at Date.now() reading t
chatMessageOf(s, user, text, t) ==
  [id |-> t, userId |-> s, userName |-> user.name,
   text |-> substring(trim(text), MAX_TEXT), isAdmin |-> (user.type = "admin")]

\* !user || !data.message || !data.message.trim()
chatDropped(s, text) ==
  connectedUsers[s].type = "none" \/ text = <<>> \/ trim(text) = <<>>

\* mutant: the submission is dropped without a word
rateLimitOutSilent(s, conn) == <<>>

\* socket.emit('error', { message: 'Message rate limit exceeded' })
rateLimitOut(s, conn) == <<Msg("error", {s}, "Message rate limit exceeded")>>

\* mutant: a rejected submission is recorded too
ChatMessageCountsRejected(s, text, t) ==
  /\ s \in connected
  /\ t >= clock
  /\ last' = IF connectedUsers[s].type = "none" THEN [op |-> "chatMessage", sock |-> s]
              ELSE [op |-> "chatMessage", sock |-> s, text |-> text,
                    held |-> Len(roomState.chatHistory)]
  /\ IF chatDropped(s, text)
     THEN Ignored
     ELSE IF rateLimited(chatRateLimit[s], t)
     THEN /\ out' = rateLimitOut(s, connected)
          /\ clock' = t
          /\ chatRateLimit' = [chatRateLimit EXCEPT
                                ![s] = Append(recentMessages(chatRateLimit[s], t), t)]
          /\ UNCHANGED <<connected, viewerCount, connectedUsers, roomState,
                         snapshotSent, kickPending>>
          /\ Elsewhere
     ELSE /\ chatRateLimit' = [chatRateLimit EXCEPT
                                ![s] = Append(recentMessages(chatRateLimit[s], t), t)]
          /\ roomState' = [roomState EXCEPT
                            !.chatHistory = pushCapped(@, chatMessageOf(s, connectedUsers[s], text, t))]
          /\ out' = <<Msg("chatMessage", connected, chatMessageOf(s, connectedUsers[s], text, t))>>
          /\ clock' = t
          /\ UNCHANGED <<connected, viewerCount, connectedUsers, snapshotSent, kickPending>>
          /\ Elsewhere

\* socket.on('chatMessage', data) with data.message = text, Date.now() reading t;
\* last.held is the length of the history the handler found
ChatMessage(s, text, t) ==
  /\ s \in connected
  /\ t >= clock
  /\ last' = IF connectedUsers[s].type = "none" THEN [op |-> "chatMessage", sock |-> s]
              ELSE [op |-> "chatMessage", sock |-> s, text |-> text,
                    held |-> Len(roomState.chatHistory)]
  /\ IF chatDropped(s, text)
     THEN Ignored
     ELSE IF rateLimited(chatRateLimit[s], t)
     THEN /\ out' = rateLimitOut(s, connected)
          /\ clock' = t
          /\ UNCHANGED <<connected, viewerCount, connectedUsers, roomState, chatRateLimit,
                         snapshotSent, kickPending>>
          /\ Elsewhere
     ELSE /\ chatRateLimit' = [chatRateLimit EXCEPT
                                ![s] = Append(recentMessages(chatRateLimit[s], t), t)]
          /\ roomState' = [roomState EXCEPT
                            !.chatHistory = pushCapped(@, chatMessageOf(s, connectedUsers[s], text, t))]
          /\ out' = <<Msg("chatMessage", connected, chatMessageOf(s, connectedUsers[s], text, t))>>
          /\ clock' = t
          /\ UNCHANGED <<connected, viewerCount, connectedUsers, snapshotSent, kickPending>>
          /\ Elsewhere

\* ---------------------------------------------------------------- specifications
\* The connection handlers and the registry. The handlers left out (playlist
\* routes, the other playback controls) write none of connected, viewerCount,
\* connectedUsers; play and pause are kept so that the snapshot varies.
RegistryNext ==
  \/ \E s \in Sockets : Connect(s)
  \/ \E s \in Sockets : Disconnect(s)
  \/ \E s \in Sockets, type \in IdentifyTypes : Identify(s, type, "")
  \/ \E s \in Sockets : IdentifyMalformed(s)
  \/ \E s \in Sockets : PlayVideo(s)
  \/ \E s \in Sockets : PauseVideo(s)

RegistrySpec == Init /\ [][RegistryNext]_vars

\* The room: every handler that reads or writes roomState, with the connection
\* handlers that give the sockets their roles.
RoomNext ==
  \/ \E s \in RoomSockets : Connect(s)
  \/ \E s \in RoomSockets : Disconnect(s)
  \/ \E s \in RoomSockets, type \in {"admin", "viewer"} : Identify(s, type, "Bob")
  \/ \E s \in RoomSockets : PlayVideo(s)
  \/ \E s \in RoomSockets : PauseVideo(s)
  \/ \E s \in RoomSockets, time \in SeekInputs : SeekVideo(s, time)
  \/ \E s \in RoomSockets : NextVideo(s)
  \/ \E s \in RoomSockets : PreviousVideo(s)
  \/ \E s \in RoomSockets, videoId \in Times : SelectVideo(s, videoId)
  \/ \E s \in RoomSockets, enabled \in BOOLEAN : ToggleSubtitles(s, enabled)
  \/ \E t \in Times, file \in FileNames : UploadVideo(t, file)
  \/ \E file \in FileNames : UploadSubtitle(file)
  \/ \E videoId \in Times : DeleteVideo(videoId)
  \/ \E newOrder \in Orders : ReorderPlaylist(newOrder)
  \/ ClearPlaylist

RoomSpec == Init /\ [][RoomNext]_vars

\* Kicks: the connection handlers, kickUser with its timer, and the periodic sweep
\* of the process they run in.
KickSockets == 1..NumKickSockets

KickNext ==
  \/ \E s \in KickSockets : serverUp /\ Connect(s)
  \/ \E s \in KickSockets : serverUp /\ Disconnect(s)
  \/ \E s \in KickSockets, type \in {"admin", "viewer"} : serverUp /\ Identify(s, type, "")
  \/ \E s \in KickSockets, userId \in KickSockets : serverUp /\ KickUser(s, userId)
  \/ \E s \in KickSockets : KickTimeout(s)
  \/ Sweep

KickSpec == Init /\ [][KickNext]_vars

\* the timers of a running process fire
KickLive == KickSpec /\ \A s \in KickSockets : WF_vars(KickTimeout(s))

\* Kicks and chat: what a socket can still do between the 'kicked' notice and the
\* timer that disconnects it.
KickedNext ==
  \/ \E s \in RoomSockets : Connect(s)
  \/ \E s \in RoomSockets : Disconnect(s)
  \/ \E s \in RoomSockets, type \in {"admin", "viewer"} : Identify(s, type, "")
  \/ \E s \in RoomSockets, userId \in RoomSockets : KickUser(s, userId)
  \/ \E s \in RoomSockets : KickTimeout(s)
  \/ \E s \in RoomSockets, t \in {clock} : ChatMessage(s, FullText, t)

KickedSpec == Init /\ [][KickedNext]_vars

\* The chat with the periodic sweep of the process it runs in.
SweepNext ==
  \/ \E s \in ChatSockets : serverUp /\ Connect(s)
  \/ \E s \in ChatSockets : serverUp /\ Disconnect(s)
  \/ \E s \in ChatSockets, type \in {"admin", "viewer"} : serverUp /\ Identify(s, type, "")
  \/ \E s \in ChatSockets, text \in ChatTexts, t \in ChatTimes : serverUp /\ ChatMessage(s, text, t)
  \/ Sweep

SweepSpec == Init /\ [][SweepNext]_vars

\* server.js: upload requests running side by side.
UploadNext ==
  \/ \E r \in Uploads, ok \in BOOLEAN : UploadCreate(r, ok)
  \/ \E r \in Uploads, result \in TransferResults, cleaned \in BOOLEAN :
       UploadTransfer(r, result, cleaned)
  \/ \E r \in Uploads, status \in PollResults : UploadPoll(r, status)
  \/ \E r \in Uploads, ok \in BOOLEAN : UploadStore(r, ok)

UploadSpec == Init /\ [][UploadNext]_vars

\* app.js: the catalog of a client under change notifications and navigation.
CatalogNext ==
  \/ \E docs \in Catalogs, ok \in BOOLEAN : LoadVideos(docs, ok)
  \/ \E docs \in Catalogs : OnSnapshot(docs)
  \/ GetNextVideo
  \/ GetPreviousVideo
  \/ \E id \in 1..NumCatalog : SetCurrentVideo(id)

CatalogSpec == Init /\ [][CatalogNext]_vars

\* part_000: the player preloading over a loaded catalog while the viewer moves on.
PreloadNext ==
  \/ LoadVideos(FullCatalog, TRUE)
  \/ GetNextVideo
  \/ StartPreloading
  \/ PreloadNextVideo
  \/ \E id \in PreloadIds : OnLoadedData(id)
  \/ \E id \in PreloadIds : OnPreloadError(id)

PreloadSpec == Init /\ [][PreloadNext]_vars

\* server.js: uploads that go through, and delete requests running side by side.
DeleteNext ==
  \/ \E r \in Uploads : UploadCreate(r, TRUE)
  \/ \E r \in Uploads : UploadTransfer(r, "ok", FALSE)
  \/ \E r \in Uploads : UploadPoll(r, "finished")
  \/ \E r \in Uploads : UploadStore(r, TRUE)
  \/ \E d \in Deletes, v \in Uploads, ok \in BOOLEAN : DeleteLookup(d, v, ok)
  \/ \E d \in Deletes, answer \in RemoteAnswers : DeleteRemote(d, answer)
  \/ \E d \in Deletes, ok \in BOOLEAN : DeleteRow(d, ok)

DeleteSpec == Init /\ [][DeleteNext]_vars

\* The uploads with their polling loops kept running: the loop of a request waits
\* on a 5 s timer and on a status request, and goes on when both have settled.
UploadLive ==
  UploadSpec /\ \A r \in Uploads : WF_vars(\E status \in PollResults : UploadPoll(r, status))

\* Resynchronisation: the commands that write the fields a syncResponse carries,
\* and syncRequest.
SyncNext ==
  \/ \E s \in RoomSockets : Connect(s)
  \/ \E s \in RoomSockets : Disconnect(s)
  \/ \E s \in RoomSockets, type \in {"admin", "viewer"} : Identify(s, type, "Bob")
  \/ \E s \in RoomSockets : PlayVideo(s)
  \/ \E s \in RoomSockets : PauseVideo(s)
  \/ \E s \in RoomSockets, time \in SeekInputs : SeekVideo(s, time)
  \/ \E s \in RoomSockets, enabled \in BOOLEAN : ToggleSubtitles(s, enabled)
  \/ \E t \in Times, file \in FileNames : UploadVideo(t, file)
  \/ \E file \in FileNames : UploadSubtitle(file)
  \/ \E s \in RoomSockets : SyncRequest(s)

SyncSpec == Init /\ [][SyncNext]_vars

\* Playlist navigation: uploads of distinguishable files, and the admin's next,
\* previous and select.
AdvanceFiles == 1..NumAdvanceFiles

AdvanceNext ==
  \/ \E s \in RoomSockets : Connect(s)
  \/ \E s \in RoomSockets : Disconnect(s)
  \/ \E s \in RoomSockets : Identify(s, "admin", "Bob")
  \/ \E s \in RoomSockets : NextVideo(s)
  \/ \E s \in RoomSockets : PreviousVideo(s)
  \/ \E s \in RoomSockets, videoId \in Times : SelectVideo(s, videoId)
  \/ \E t \in Times, file \in AdvanceFiles : UploadVideo(t, file)
  \/ \E videoId \in Times : DeleteVideo(videoId)

AdvanceSpec == Init /\ [][AdvanceNext]_vars

\* The chat: the chatMessage handler with its rate limiter, and the connection
\* handlers that register the authors. No other handler writes chatHistory or
\* chatRateLimit.
ChatNext ==
  \/ \E s \in ChatSockets : Connect(s)
  \/ \E s \in ChatSockets : Disconnect(s)
  \/ \E s \in ChatSockets, type \in {"admin", "viewer"} : Identify(s, type, "")
  \/ \E s \in ChatSockets, text \in ChatTexts, t \in ChatTimes : ChatMessage(s, text, t)

ChatSpec == Init /\ [][ChatNext]_vars

\* ---------------------------------------------------------------- properties
\* number of connections registered with role viewer
viewers == Cardinality(viewerList(connectedUsers))

\* the step just taken ran the identify handler and turned the viewer away
rejectedStep == last'.op = "identify" /\ out' # <<>> /\ out'[1].ev = "viewerLimitReached"

\* the step just taken ran the identify handler and admitted a viewer
admittedViewerStep == last'.op = "identify" /\ out' # <<>> /\ out'[1].ev = "identified"
                      /\ ~out'[1].data.isAdmin

\* the fields of roomState that make up the RoomState of the design
Room(rs) == <<rs.currentVideo, rs.isPlaying, rs.currentTime, rs.playlist,
              rs.subtitleEnabled, rs.subtitleFile>>

PlaybackCommands == {"playVideo", "pauseVideo", "seekVideo", "nextVideo", "previousVideo",
                     "selectVideo", "toggleSubtitles"}

Deltas == {"playVideo", "pauseVideo", "seekVideo", "videoChange", "playlistUpdate",
           "subtitlesToggle", "chatMessage"}

\* C1: the number of connections registered as viewer never exceeds MAX_VIEWERS.
C1_CapacityInvariant == viewers <= MAX_VIEWERS

\* C2: a viewer identify is rejected exactly when the number of viewers registered
\* at the moment it is processed is >= MAX_VIEWERS, and admitted otherwise.
C2_DecidedOnCurrentCount ==
  [][/\ rejectedStep => viewers >= MAX_VIEWERS
     /\ admittedViewerStep => viewers < MAX_VIEWERS]_vars

\* C3: a playback command issued by a connection that is registered as viewer or
\* not registered leaves RoomState as it was and emits nothing.
C3_RoleGating ==
  [][(last'.op \in PlaybackCommands /\ connectedUsers[last'.sock].type # "admin")
       => (roomState' = roomState /\ out' = <<>>)]_vars

\* C3 witness: a viewer has just issued nextVideo on a playing room with two videos
C3_Witness ==
  /\ last.op = "nextVideo"
  /\ connectedUsers[last.sock].type = "viewer"
  /\ Len(roomState.playlist) = 2
  /\ roomState.isPlaying
  /\ roomState.currentVideo = roomState.playlist[1]

\* C4: every change of RoomState is made by a step whose issuer is a connection
\* registered with role admin.
C4_SingleWriter ==
  [][Room(roomState') # Room(roomState)
       => (last'.sock \in Sockets /\ connectedUsers[last'.sock].type = "admin")]_vars

\* C5: an empty playlist has no currentVideo, and a set currentVideo has the id of
\* an entry of the playlist.
C5_PlaylistReference ==
  /\ roomState.playlist = <<>> => roomState.currentVideo = Null
  /\ roomState.currentVideo # Null
       => \E i \in 1..Len(roomState.playlist) : roomState.playlist[i].id = roomState.currentVideo.id

\* C6: when the playlist is empty, isPlaying is false.
C6_EmptyNotPlaying == roomState.playlist = <<>> => ~roomState.isPlaying

\* C7: the role of a connection does not change while it stays registered.
C7_RoleImmutable ==
  [][\A s \in Sockets :
       (connectedUsers[s].type # "none" /\ connectedUsers'[s].type # "none")
         => connectedUsers'[s].type = connectedUsers[s].type]_vars

\* C8: a viewer identify rejected for capacity changes neither the registry nor
\* RoomState, sends viewerLimitReached to the rejected connection only, before the
\* transport closes, and the disconnect that follows emits nothing.
C8_RejectionIsLocal ==
  [][rejectedStep =>
       /\ connectedUsers' = connectedUsers
       /\ roomState' = roomState
       /\ out' = <<Msg("viewerLimitReached", {last'.sock}, MAX_VIEWERS)>>
       /\ last'.sock \in connected /\ last'.sock \notin connected']_vars

\* C9: an identify with type admin is always admitted: the connection is registered
\* as admin, is sent 'identified' and then the room snapshot, and adminOnline true
\* goes to every open socket; no other registry entry changes.
C9_AdminAlwaysAdmitted ==
  [][(last'.op = "identify" /\ last'.type = "admin") =>
       /\ connectedUsers'[last'.sock].type = "admin"
       /\ \A s \in Sockets \ {last'.sock} : connectedUsers'[s] = connectedUsers[s]
       /\ connected' = connected
       /\ Len(out') = 3
       /\ out'[1] = Msg("identified", {last'.sock}, [isAdmin |-> TRUE, socketId |-> last'.sock])
       /\ out'[2] = Msg("roomState", {last'.sock}, roomState)
       /\ out'[3] = Msg("adminOnline", connected, TRUE)]_vars

\* C9 witness: an admin has just been admitted while MAX_VIEWERS viewers are
\* registered, on a socket opened when the room was full, with the room playing
C9_Witness ==
  /\ last.op = "identify" /\ last.type = "admin"
  /\ viewers = MAX_VIEWERS
  /\ viewerCount[last.sock] >= MAX_VIEWERS
  /\ connectedUsers[last.sock].type = "admin"
  /\ Len(out) = 3 /\ out[2].ev = "roomState" /\ out[2].data.isPlaying

\* C10: no delta broadcast is delivered to a socket that has not been sent the
\* room snapshot.
C10_SnapshotBeforeDelta ==
  \A i \in 1..Len(out) :
    out[i].ev \in Deltas => \A s \in out[i].to : snapshotSent[s]

\* a chat submission of a registered connection has just been handled
chatStep == last'.op = "chatMessage" /\ connectedUsers[last'.sock].type # "none"

\* the text has no character other than white space
blank(text) == \A i \in 1..Len(text) : text[i] = " "

\* number of accepted submissions of s less than RATE_WINDOW before now
acceptedInWindow(s, now) ==
  Cardinality({i \in 1..Len(chatRateLimit[s]) : now - chatRateLimit[s][i] < RATE_WINDOW})

\* the chat submission just handled got as far as the rate limiter and was turned away
limitedStep ==
  chatStep /\ ~blank(last'.text) /\ acceptedInWindow(last'.sock, clock') >= RATE_LIMIT

\* the chat submission just handled got past the rate limiter
passedStep ==
  chatStep /\ ~blank(last'.text) /\ acceptedInWindow(last'.sock, clock') < RATE_LIMIT

\* the text between the first and the last character that is not white space,
\* cut to its first MAX_TEXT characters
expectedText(text) ==
  LET solid == {i \in 1..Len(text) : text[i] # " "}
      first == CHOOSE i \in solid : \A j \in solid : i <= j
      final == CHOOSE i \in solid : \A j \in solid : i >= j
      size == IF final - first + 1 > MAX_TEXT THEN MAX_TEXT ELSE final - first + 1
  IN [k \in 1..size |-> text[first + k - 1]]

\* C11: the chat history never holds more than CHAT_CAP messages; a message
\* appended to a full history evicts the oldest one, the others keep their order
\* and the new one is last.
C11_ChatCap ==
  /\ [](Len(roomState.chatHistory) <= CHAT_CAP)
  /\ [][passedStep =>
          /\ Len(out') = 1
          /\ roomState'.chatHistory =
               IF Len(roomState.chatHistory) = CHAT_CAP
               THEN Tail(roomState.chatHistory) \o <<out'[1].data>>
               ELSE roomState.chatHistory \o <<out'[1].data>>]_vars

\* C11 witness: a message has just been appended to a history that held CHAT_CAP
C11_Witness ==
  /\ last.op = "chatMessage" /\ connectedUsers[last.sock].type # "none"
  /\ last.held = CHAT_CAP
  /\ out # <<>> /\ out[1].ev = "chatMessage"
  /\ Len(roomState.chatHistory) = CHAT_CAP

C13_RateLimitedIsLocal ==
  [][limitedStep =>
       /\ roomState' = roomState
       /\ Len(out') = 1 /\ out'[1].ev = "error" /\ out'[1].to = {last'.sock}]_vars

\* C13 witness: a submission has just been turned away with a full history
C13_Witness ==
  /\ last.op = "chatMessage"
  /\ out # <<>> /\ out[1].ev = "error" /\ out[1].to = {last.sock}
  /\ Len(roomState.chatHistory) = CHAT_CAP

\* C14: a submission that is empty after trimming appends nothing and emits
\* nothing; one that passes the rate limiter is appended and broadcast with the
\* trimmed text cut to MAX_TEXT characters, whatever its length.
C14_TrimAndCut ==
  [][/\ (chatStep /\ blank(last'.text)) => (roomState' = roomState /\ out' = <<>>)
     /\ passedStep =>
          /\ out' # <<>> /\ out'[1].ev = "chatMessage" /\ out'[1].to = connected
          /\ out'[1].data.text = expectedText(last'.text)
          /\ roomState'.chatHistory # <<>>
          /\ roomState'.chatHistory[Len(roomState'.chatHistory)] = out'[1].data]_vars

\* C14 witness: a text longer than MAX_TEXT between white space has been appended
C14_Witness ==
  /\ last.op = "chatMessage" /\ connectedUsers[last.sock].type # "none"
  /\ last.text = <<" ">> \o LongText \o <<" ">>
  /\ out # <<>> /\ out[1].ev = "chatMessage" /\ out[1].data.text = FullText

\* an admin's next or previous has just been handled
advanceStep == last'.op \in {"nextVideo", "previousVideo"} /\ isAdmin(last'.sock)

\* an admin's selectVideo has just been handled
selectStep == last'.op = "selectVideo" /\ isAdmin(last'.sock)

\* the positions of the playlist that hold the entry
positions(pl, video) == {i \in 1..Len(pl) : pl[i] = video}

\* C15: with the current entry at position i of a playlist of n entries, an admin
\* next sets currentVideo to the entry after it and an admin previous to the entry
\* before it, wrapping around; both set currentTime to 0 and isPlaying to true.
C15_AdvanceWraps ==
  [][(advanceStep /\ Cardinality(positions(roomState.playlist, roomState.currentVideo)) = 1)
       => LET pl == roomState.playlist
              n == Len(pl)
              i == CHOOSE k \in positions(pl, roomState.currentVideo) : TRUE
          IN /\ roomState'.currentVideo =
                  IF last'.op = "nextVideo" THEN pl[(i % n) + 1] ELSE pl[((i + n - 2) % n) + 1]
             /\ roomState'.currentTime = 0
             /\ roomState'.isPlaying]_vars

\* C16: an admin next, previous or selectVideo that changes the video sends every
\* connection videoChange with the new currentVideo and then playVideo with
\* currentTime 0, the state holding the new video, currentTime 0 and isPlaying.
C16_ChangeBroadcast ==
  [][((advanceStep /\ roomState.playlist # <<>>)
        \/ (selectStep /\ \E i \in 1..Len(roomState.playlist) :
                            roomState.playlist[i].id = last'.videoId))
       => /\ Len(out') = 2
          /\ out'[1] = Msg("videoChange", connected, roomState'.currentVideo)
          /\ out'[2] = Msg("playVideo", connected, [currentTime |-> 0])
          /\ roomState'.currentVideo # Null
          /\ roomState'.currentTime = 0
          /\ roomState'.isPlaying]_vars

\* C16 witness: a next has just moved the room to the second of two entries
C16_Witness ==
  /\ last.op = "nextVideo" /\ isAdmin(last.sock)
  /\ Len(roomState.playlist) = 2
  /\ roomState.playlist[1] # roomState.playlist[2]
  /\ roomState.currentVideo = roomState.playlist[2]
  /\ Len(out) = 2 /\ out[1].ev = "videoChange" /\ out[1].data = roomState.playlist[2]

\* C17: an admin next or previous with an empty playlist changes nothing and
\* broadcasts nothing.
C17_EmptyAdvanceNoOp ==
  [][(advanceStep /\ roomState.playlist = <<>>) => (roomState' = roomState /\ out' = <<>>)]_vars

\* C17 witness: an admin's next or previous has just met an empty playlist
C17_Witness ==
  /\ last.op \in {"nextVideo", "previousVideo"} /\ isAdmin(last.sock)
  /\ roomState.playlist = <<>>
  /\ out = <<>>

\* C18: an admin selectVideo(id) with id in the playlist sets currentVideo to the
\* matching entry, currentTime to 0 and isPlaying to true; with id absent it leaves
\* RoomState unchanged, broadcasts nothing and notifies the issuer only.
C18_SelectOrNotify ==
  [][selectStep =>
       IF \E i \in 1..Len(roomState.playlist) : roomState.playlist[i].id = last'.videoId
       THEN /\ roomState'.currentVideo.id = last'.videoId
            /\ \E i \in 1..Len(roomState.playlist) : roomState.playlist[i] = roomState'.currentVideo
            /\ roomState'.currentTime = 0
            /\ roomState'.isPlaying
       ELSE /\ roomState' = roomState
            /\ Len(out') = 1 /\ out'[1].to = {last'.sock}]_vars

\* C19: an admin seek with a negative time changes nothing and sends an error to
\* the issuer only; with a time >= 0 it sets currentTime to that time, nothing
\* else, and broadcasts seekVideo with that time; currentTime is never negative.
C19_SeekValidated ==
  /\ [](roomState.currentTime >= 0)
  /\ [][(last'.op = "seekVideo" /\ isAdmin(last'.sock) /\ last'.time.isNumber)
          => IF last'.time.val < 0
             THEN /\ roomState' = roomState
                  /\ Len(out') = 1 /\ out'[1].ev = "error" /\ out'[1].to = {last'.sock}
             ELSE /\ roomState' = [roomState EXCEPT !.currentTime = last'.time.val]
                  /\ out' = <<Msg("seekVideo", connected, [time |-> last'.time.val])>>]_vars

\* C19 witness: a seek to 0 has just been broadcast
C19_Witness ==
  /\ last.op = "seekVideo" /\ isAdmin(last.sock)
  /\ last.time = [isNumber |-> TRUE, val |-> 0]
  /\ out = <<Msg("seekVideo", connected, [time |-> 0])>>

\* C20: an added video is appended at the end of the playlist; added to an empty
\* playlist it becomes currentVideo; isPlaying and currentTime stay, and so does a
\* currentVideo that is set; every connection is sent the new playlist.
C20_AddAppends ==
  [][last'.op = "uploadVideo" =>
       /\ Len(roomState'.playlist) = Len(roomState.playlist) + 1
       /\ SubSeq(roomState'.playlist, 1, Len(roomState.playlist)) = roomState.playlist
       /\ roomState.playlist = <<>> => roomState'.currentVideo = roomState'.playlist[1]
       /\ roomState.currentVideo # Null => roomState'.currentVideo = roomState.currentVideo
       /\ roomState'.isPlaying = roomState.isPlaying
       /\ roomState'.currentTime = roomState.currentTime
       /\ out' = <<Msg("playlistUpdate", connected, roomState'.playlist)>>]_vars

\* C21: once the stream-started timestamp is recorded, no operation changes it.
C21_StreamStartSetOnce ==
  /\ [][roomState.streamStartTime # 0
          => roomState'.streamStartTime = roomState.streamStartTime]_vars
  /\ [][(last'.op = "uploadVideo" /\ roomState.streamStartTime = 0 /\ roomState.currentVideo = Null)
          => roomState'.streamStartTime = clock']_vars

\* C21 witness: after a clear, a later upload has become currentVideo and the
\* timestamp of the first upload is still there
C21_Witness ==
  /\ last.op = "uploadVideo"
  /\ roomState.playlist # <<>>
  /\ roomState.currentVideo = roomState.playlist[1]
  /\ roomState.currentVideo.id = 2
  /\ Len(roomState.playlist) = 1
  /\ roomState.streamStartTime = 1

\* the entries of the playlist whose id is not videoId, in their order
RECURSIVE without(_, _)
without(pl, videoId) ==
  IF pl = <<>> THEN <<>>
  ELSE IF pl[Len(pl)].id = videoId THEN without(SubSeq(pl, 1, Len(pl) - 1), videoId)
  ELSE Append(without(SubSeq(pl, 1, Len(pl) - 1), videoId), pl[Len(pl)])

\* C22: a delete of a video id takes the entries with that id out of the playlist
\* and keeps the order of the others; if currentVideo had that id, currentVideo
\* becomes the new first entry or none, currentTime 0, isPlaying false, and
\* videoChange and playbackState are broadcast besides playlistUpdate; otherwise
\* currentVideo, currentTime and isPlaying stay and only playlistUpdate is broadcast.
C22_RemoveVideo ==
  [][last'.op = "deleteVideo" =>
       LET pl == without(roomState.playlist, last'.videoId)
       IN /\ roomState'.playlist = pl
          /\ IF roomState.currentVideo # Null /\ roomState.currentVideo.id = last'.videoId
             THEN /\ roomState'.currentVideo = IF pl = <<>> THEN Null ELSE pl[1]
                  /\ roomState'.currentTime = 0
                  /\ ~roomState'.isPlaying
                  /\ {out'[i].ev : i \in 1..Len(out')} = {"videoChange", "playbackState", "playlistUpdate"}
                  /\ Len(out') = 3
                  /\ \A i \in 1..3 : out'[i].to = connected
                  /\ \A i \in 1..3 : out'[i].ev = "videoChange" => out'[i].data = roomState'.currentVideo
                  /\ \A i \in 1..3 : out'[i].ev = "playlistUpdate" => out'[i].data = pl
             ELSE /\ roomState'.currentVideo = roomState.currentVideo
                  /\ roomState'.currentTime = roomState.currentTime
                  /\ roomState'.isPlaying = roomState.isPlaying
                  /\ out' = <<Msg("playlistUpdate", connected, pl)>>]_vars

\* C22 witness: the current video of a playing room has just been deleted and the
\* entry behind it has taken its place
C22_Witness ==
  /\ last.op = "deleteVideo"
  /\ Len(out) = 3
  /\ roomState.playlist # <<>>
  /\ roomState.currentVideo = roomState.playlist[1]
  /\ roomState.currentVideo.id # last.videoId
  /\ connected # {}

\* C23: after clearPlaylist the playlist is empty, currentVideo is none, isPlaying
\* is false and currentTime is 0.
C23_ClearResets ==
  [][last'.op = "clearPlaylist" =>
       /\ roomState'.playlist = <<>>
       /\ roomState'.currentVideo = Null
       /\ ~roomState'.isPlaying
       /\ roomState'.currentTime = 0]_vars

\* the room as it is after construction
emptyRoom ==
  /\ roomState.playlist = <<>> /\ roomState.currentVideo = Null
  /\ ~roomState.isPlaying /\ roomState.currentTime = 0

\* C24: an admin play sets isPlaying, an admin pause clears it; neither changes
\* currentVideo, currentTime or the playlist; play sends playVideo with the
\* server's currentTime to every connection. An upload into the empty room followed
\* by play gives currentVideo A, isPlaying, currentTime 0 and playVideo with 0.
C24_PlayPause ==
  /\ [][(last'.op \in {"playVideo", "pauseVideo"} /\ isAdmin(last'.sock)) =>
          /\ roomState'.isPlaying = (last'.op = "playVideo")
          /\ roomState'.currentVideo = roomState.currentVideo
          /\ roomState'.currentTime = roomState.currentTime
          /\ roomState'.playlist = roomState.playlist
          /\ last'.op = "playVideo" =>
               out' = <<Msg("playVideo", connected, [currentTime |-> roomState.currentTime])>>]_vars
  /\ [][(emptyRoom /\ last'.op = "uploadVideo") =>
          /\ roomState'.currentVideo = roomState'.playlist[1]
          /\ ~roomState'.isPlaying /\ roomState'.currentTime = 0]_vars

\* C24 witness: play has just resumed a video away from its start
C24_Witness ==
  /\ last.op = "playVideo" /\ isAdmin(last.sock)
  /\ roomState.isPlaying
  /\ roomState.currentVideo # Null
  /\ roomState.currentTime = 1
  /\ out = <<Msg("playVideo", connected, [currentTime |-> 1])>>

\* C25: a syncRequest changes no state; a registered viewer is answered, alone,
\* with currentVideo, isPlaying, currentTime, subtitleEnabled and subtitleFile of
\* the server at that moment; an admin or an unregistered connection gets nothing.
C25_SyncRequest ==
  [][last'.op = "syncRequest" =>
       /\ roomState' = roomState
       /\ connectedUsers' = connectedUsers
       /\ connected' = connected
       /\ IF connectedUsers[last'.sock].type = "viewer"
          THEN /\ Len(out') = 1
               /\ out'[1].ev = "syncResponse"
               /\ out'[1].to = {last'.sock}
               /\ out'[1].data.currentVideo = roomState.currentVideo
               /\ out'[1].data.isPlaying = roomState.isPlaying
               /\ out'[1].data.currentTime = roomState.currentTime
               /\ out'[1].data.subtitleEnabled = roomState.subtitleEnabled
               /\ out'[1].data.subtitleFile = roomState.subtitleFile
          ELSE out' = <<>>]_vars

\* C25 witness: a viewer has just been told of a playing video away from its start,
\* with subtitles on
C25_Witness ==
  /\ last.op = "syncRequest"
  /\ connectedUsers[last.sock].type = "viewer"
  /\ out # <<>> /\ out[1].ev = "syncResponse"
  /\ out[1].data.currentVideo # Null
  /\ out[1].data.isPlaying
  /\ out[1].data.currentTime = 1
  /\ out[1].data.subtitleEnabled
  /\ out[1].data.subtitleFile # 0

\* the roster messages among the messages msgs
rosterMessages(msgs) ==
  {i \in 1..Len(msgs) : msgs[i].ev = "userLeave" \/ (msgs[i].ev = "adminOnline" /\ msgs[i].data = FALSE)}

\* C26: a kickUser of an admin for a connected target sends the target 'kicked' at
\* once and changes nothing else, and the target is eventually disconnected and out
\* of the Registry, its leaving broadcast once; a kickUser of a non-admin, or for an
\* id that is not connected, has no effect.
C26_KickRemoves ==
  /\ [][last'.op = "kickUser" =>
          /\ connected' = connected /\ connectedUsers' = connectedUsers /\ roomState' = roomState
          /\ IF isAdmin(last'.sock) /\ last'.userId \in connected
             THEN out' = <<Msg("kicked", {last'.userId}, "Removed by admin")>>
             ELSE out' = <<>> /\ kickPending' = kickPending]_vars
  /\ [][\A s \in Sockets :
          (s \in connected /\ s \notin connected' /\ connectedUsers[s].type # "none")
            => (connectedUsers'[s] = NoUser /\ Cardinality(rosterMessages(out')) = 1)]_vars
  /\ \A s \in Sockets :
       (s \in kickPending) ~> (s \notin connected /\ connectedUsers[s] = NoUser)

\* C27: the disconnect of a registered connection removes its Registry entry and
\* no other, and broadcasts userLeave with the new viewer count for a viewer,
\* adminOnline false for an admin; the disconnect of a connection that is not in
\* the Registry changes nothing there and broadcasts nothing.
C27_DisconnectRemovesOne ==
  [][last'.op = "disconnect" =>
       LET s == last'.sock
           left == Cardinality({u \in Sockets \ {s} : connectedUsers[u].type = "viewer"})
       IN /\ \A u \in Sockets \ {s} : connectedUsers'[u] = connectedUsers[u]
          /\ connectedUsers'[s] = NoUser
          /\ connectedUsers[s].type = "viewer" =>
               /\ out' # <<>>
               /\ out'[1].ev = "userLeave" /\ out'[1].to = connected \ {s}
               /\ out'[1].data.id = s /\ out'[1].data.viewerCount = left
               /\ \A i \in 1..Len(out') : out'[i].ev # "adminOnline"
          /\ connectedUsers[s].type = "admin" =>
               out' = <<Msg("adminOnline", connected \ {s}, FALSE)>>
          /\ connectedUsers[s].type = "none" =>
               (out' = <<>> /\ connectedUsers' = connectedUsers)]_vars

\* C27 witness: a viewer has just left a room where another viewer and an admin stay
C27_Witness ==
  /\ last.op = "disconnect"
  /\ out # <<>> /\ out[1].ev = "userLeave" /\ out[1].data.viewerCount = 1
  /\ \E a \in connected : connectedUsers[a].type = "admin"
  /\ \E v \in connected : connectedUsers[v].type = "viewer"

\* C28: the rate-limiter entry of a connection is discarded when it disconnects,
\* and a run of the periodic sweep keeps the timestamps younger than 60 s, drops
\* the others, and leaves the server running.
C28_SweepKeepsRunning ==
  /\ [][\A s \in Sockets : (s \in connected /\ s \notin connected') => chatRateLimit'[s] = <<>>]_vars
  /\ [][last'.op = "sweep" =>
          /\ serverUp'
          /\ \A s \in Sockets :
               chatRateLimit'[s] = SelectSeq(chatRateLimit[s], LAMBDA time : clock' - time < 60000)]_vars

\* C29: a message is appended with the display name its submitting connection has
\* in the Registry at that moment and with isAdmin true exactly when its role is
\* admin, and stays as it was appended; a chat submission of a connection that is
\* not registered appends nothing and broadcasts nothing.
C29_AuthorFromRegistry ==
  /\ [][passedStep =>
          /\ Len(out') = 1
          /\ out'[1].data.userId = last'.sock
          /\ out'[1].data.userName = connectedUsers[last'.sock].name
          /\ out'[1].data.isAdmin = (connectedUsers[last'.sock].type = "admin")
          /\ roomState'.chatHistory # <<>>
          /\ roomState'.chatHistory[Len(roomState'.chatHistory)] = out'[1].data]_vars
  /\ [][(last'.op = "chatMessage" /\ connectedUsers[last'.sock].type = "none")
          => (roomState' = roomState /\ out' = <<>>)]_vars
  /\ [][last'.op # "chatMessage" => roomState'.chatHistory = roomState.chatHistory]_vars
  /\ [][\A i \in 1..Len(roomState'.chatHistory) - 1 :
          \E j \in 1..Len(roomState.chatHistory) :
            roomState'.chatHistory[i] = roomState.chatHistory[j]]_vars

\* C29 witness: the log holds a message written as admin and a later one written
\* as viewer by the same socket
C29_Witness ==
  /\ Len(roomState.chatHistory) = 2
  /\ roomState.chatHistory[1].userId = roomState.chatHistory[2].userId
  /\ roomState.chatHistory[1].isAdmin /\ roomState.chatHistory[1].userName = <<"Admin">>
  /\ ~roomState.chatHistory[2].isAdmin
  /\ roomState.chatHistory[2].userName = <<"Viewer_", roomState.chatHistory[2].userId>>
  /\ last.op = "chatMessage" /\ out # <<>> /\ out[1].ev = "chatMessage"

\* C30: an upload that has failed is reported with its reason, and neither a
\* Bunny Stream entry nor a catalog row of that upload remains.
C30_FailedUploadLeavesNothing ==
  \A r \in Uploads :
    uploads[r].pc = "failed"
      => (uploads[r].reason # "none" /\ r \notin bunnyVideos /\ r \notin videosTable)

\* the fields of RoomState a viewer mirrors
View(rs) == [currentVideo |-> rs.currentVideo, isPlaying |-> rs.isPlaying,
             currentTime |-> rs.currentTime, subtitleEnabled |-> rs.subtitleEnabled]

\* the mirror after one broadcast message: each delta overwrites its fields
applyDelta(view, msg) ==
  IF msg.ev = "videoChange" THEN [view EXCEPT !.currentVideo = msg.data]
  ELSE IF msg.ev = "playVideo"
  THEN [view EXCEPT !.isPlaying = TRUE, !.currentTime = msg.data.currentTime]
  ELSE IF msg.ev = "pauseVideo" THEN [view EXCEPT !.isPlaying = FALSE]
  ELSE IF msg.ev = "seekVideo" THEN [view EXCEPT !.currentTime = msg.data.time]
  ELSE IF msg.ev = "playbackState"
  THEN [view EXCEPT !.isPlaying = msg.data.isPlaying, !.currentTime = msg.data.currentTime]
  ELSE IF msg.ev = "subtitlesToggle" THEN [view EXCEPT !.subtitleEnabled = msg.data.enabled]
  ELSE view

\* the mirror of socket s after the messages msgs, in order
RECURSIVE applyDeltas(_, _, _)
applyDeltas(view, msgs, s) ==
  IF msgs = <<>> THEN view
  ELSE applyDeltas(IF s \in msgs[1].to THEN applyDelta(view, msgs[1]) ELSE view, Tail(msgs), s)

\* C31: a registered viewer that holds the server's currentVideo, isPlaying,
\* currentTime and subtitleEnabled and applies the messages of a server step in
\* order holds the server's values after the step.
C31_ViewerMirror ==
  [][\A s \in Sockets :
       (s \in connected /\ s \in connected'
          /\ connectedUsers[s].type = "viewer" /\ connectedUsers'[s].type = "viewer")
         => applyDeltas(View(roomState), out', s) = View(roomState')]_vars

\* the registry holds an admin
adminRegistered(users) == \E s \in Sockets : users[s].type = "admin"

\* C32: an identify or disconnect that broadcasts adminOnline broadcasts true
\* exactly when an admin is registered after it, and one that changes whether an
\* admin is registered broadcasts adminOnline.
C32_AdminOnlineTracksRegistry ==
  [][last'.op \in {"identify", "disconnect"} =>
       /\ \A i \in 1..Len(out') :
            out'[i].ev = "adminOnline" => out'[i].data = adminRegistered(connectedUsers')
       /\ adminRegistered(connectedUsers') # adminRegistered(connectedUsers)
            => \E i \in 1..Len(out') : out'[i].ev = "adminOnline"]_vars

\* C33: userListUpdate reaches admin connections only.
C33_RosterToAdminsOnly ==
  [][\A i \in 1..Len(out') :
       out'[i].ev = "userListUpdate"
         => \A s \in out'[i].to : connectedUsers'[s].type = "admin"]_vars

\* C34: a chat submission that is dropped as empty or turned away by the rate
\* limiter records no timestamp; an accepted one records its own.
C34_OnlyAcceptedCount ==
  /\ [][(limitedStep \/ (chatStep /\ blank(last'.text))) => chatRateLimit' = chatRateLimit]_vars
  /\ [][passedStep =>
          /\ chatRateLimit'[last'.sock] # <<>>
          /\ chatRateLimit'[last'.sock][Len(chatRateLimit'[last'.sock])] = clock'
          /\ acceptedInWindow(last'.sock, clock') + 1 = Len(chatRateLimit'[last'.sock])]_vars

\* C34 witness: a submission has just been turned away one tick after RATE_LIMIT
\* accepted ones, and the recorded timestamps are those of the accepted ones
C34_Witness ==
  /\ last.op = "chatMessage"
  /\ out # <<>> /\ out[1].ev = "error"
  /\ clock = RATE_WINDOW + 1
  /\ chatRateLimit[last.sock] = [i \in 1..RATE_LIMIT |-> RATE_WINDOW]

\* C36: the entries of the playlist have pairwise distinct ids.
C36_DistinctIds ==
  \A i, j \in 1..Len(roomState.playlist) :
    i # j => roomState.playlist[i].id # roomState.playlist[j].id

\* C35: a message that arrives from a connection after it has been sent 'kicked'
\* changes neither the chat log nor RoomState and is not broadcast.
C35_KickedIsMuted ==
  [][(last'.op \in {"chatMessage", "identify", "kickUser"} /\ last'.sock \in kickPending)
       => /\ roomState' = roomState
          /\ \A i \in 1..Len(out') : out'[i].to \subseteq {last'.sock}]_vars

\* how a poll of request r ended the wait of uploadToBunnyStream, if it did
pollLeft(r) == uploads[r].pc = "processing" /\ uploads'[r].pc # "processing"

C38_RowOutlivesRemote ==
  [][/\ \A v \in Uploads :
          (v \in videosTable /\ v \notin videosTable')
            => /\ v \notin bunnyVideos'
               /\ last'.op = "deleteRow"
               /\ deletes[last'.req] = [pc |-> "remoteGone", video |-> v, reason |-> "none"]
     /\ (last'.op = "deleteRemote" /\ last'.answer \in {"failed", "threw"})
          => /\ videosTable' = videosTable
             /\ deletes'[last'.req].pc = "failed"
     /\ (last'.op = "deleteRemote" /\ last'.answer = "notFound")
          => deletes'[last'.req].pc = "remoteGone"
     /\ (last'.op = "deleteRow" /\ last'.ok)
          => /\ deletes'[last'.req].pc = "done"
             /\ deletes[last'.req].video \notin videosTable']_vars

\* C37: after any catalog change notifications and navigation calls, a non-empty
\* videos has currentIndex < videos.length and currentVideo the entry
\* videos[currentIndex]; getNextVideo and getPreviousVideo move one place with
\* wrap-around at both ends, and return null changing nothing on an empty videos.
C37_CatalogCursor ==
  /\ [](Len(videos) > 0 => (currentIndex < Len(videos) /\ currentVideo = at(videos, currentIndex)))
  /\ [][/\ (last'.op \in {"getNextVideo", "getPreviousVideo"} /\ Len(videos) = 0)
            => (last'.ret = 0 /\ UNCHANGED <<videos, currentIndex, currentVideo>>)
        /\ (last'.op = "getNextVideo" /\ Len(videos) > 0 /\ currentIndex < Len(videos))
            => currentIndex' = IF currentIndex = Len(videos) - 1 THEN 0 ELSE currentIndex + 1
        /\ (last'.op = "getPreviousVideo" /\ Len(videos) > 0 /\ currentIndex < Len(videos))
            => currentIndex' = IF currentIndex = 0 THEN Len(videos) - 1 ELSE currentIndex - 1]_vars

\* C40: the preload cache never holds more than four entries, however the
\* preloadVideo calls and the onloadeddata callbacks interleave.
C40_CacheBounded == Len(preloadedVideos) <= PRELOAD_KEEP + 1

====
